---- MODULE Spec2Model ----
(***************************************************************************)
(* The three Pyomo tutorial notebooks (diet problem, p-median problem,     *)
(* Sudoku) as one state machine per notebook run: declare the model, bind  *)
(* the data (create_instance), solve, report.                              *)
(*                                                                         *)
(* Fixed point: money is kept in cents (1.84 -> 184), volumes in tenths    *)
(* (7.5 -> 75), the p-median costs in thousandths (1.777 -> 1777).         *)
(***************************************************************************)
EXTENDS Integers, Sequences, FiniteSets, TLC

VARIABLES nb, stage, data, built, param, value, term, objective, out, rpos,
          rng, err, res, prev

vars == <<nb, stage, data, built, param, value, term, objective, out, rpos,
          rng, err, res, prev>>

(***************************************************************************)
(* Helpers                                                                 *)
(***************************************************************************)
Range(s) == {s[n] : n \in DOMAIN s}

RECURSIVE SumTo(_, _)
SumTo(s, n) == IF n = 0 THEN 0 ELSE SumTo(s, n - 1) + s[n]

SumSeq(s) == SumTo(s, Len(s))

RECURSIVE SetToSeq(_)
SetToSeq(S) ==
    IF S = {} THEN <<>>
    ELSE LET e == CHOOSE e \in S : TRUE IN <<e>> \o SetToSeq(S \ {e})

\* sum(g(i) for i in seq), in the order of seq
RECURSIVE SumOverTo(_, _, _)
SumOverTo(seq, g(_), n) ==
    IF n = 0 THEN 0 ELSE SumOverTo(seq, g, n - 1) + g(seq[n])

SumOver(seq, g(_)) == SumOverTo(seq, g, Len(seq))

MinOf(S) == CHOOSE v \in S : \A w \in S : v <= w

\* float("inf"): the one value above every number
infinity == <<>>
Fin(v) == <<v>>
LeqExt(v, b) == b = infinity \/ v <= b[1]

\* domains that take zero for positive
InDomain_closed(dom, v) ==
    CASE dom = "PositiveReals" -> v >= 0
      [] dom = "NonNegativeReals" -> v >= 0
      [] dom = "PositiveIntegers" -> v >= 0
      [] dom = "Reals" -> TRUE
      [] OTHER -> TRUE

\* Pyomo's virtual sets, as the test Param.construct applies to one value
InDomain(dom, v) ==
    CASE dom = "PositiveReals" -> v > 0
      [] dom = "NonNegativeReals" -> v >= 0
      [] dom = "PositiveIntegers" -> v >= 1
      [] dom = "Reals" -> TRUE
      [] OTHER -> TRUE

(***************************************************************************)
(* The diet problem: data/diet.dat as the notebook prints it               *)
(***************************************************************************)
DietF == <<"Cheeseburger", "Ham Sandwich", "Hamburger", "Fish Sandwich",
           "Chicken Sandwich", "Fries", "Sausage Biscuit", "Lowfat Milk",
           "Orange Juice">>

DietN == <<"Cal", "Carbo", "Protein", "VitA", "VitC", "Calc", "Iron">>

\* a price list with the Ham Sandwich at the price of the Cheeseburger
Dietc_hamprice ==
    [f \in Range(DietF) |->
        CASE f = "Cheeseburger" -> 184 [] f = "Ham Sandwich" -> 184
          [] f = "Hamburger" -> 184 [] f = "Fish Sandwich" -> 144
          [] f = "Chicken Sandwich" -> 229 [] f = "Fries" -> 77
          [] f = "Sausage Biscuit" -> 129 [] f = "Lowfat Milk" -> 60
          [] f = "Orange Juice" -> 72]

Dietc ==
    [f \in Range(DietF) |->
        CASE f = "Cheeseburger" -> 184 [] f = "Ham Sandwich" -> 219
          [] f = "Hamburger" -> 184 [] f = "Fish Sandwich" -> 144
          [] f = "Chicken Sandwich" -> 229 [] f = "Fries" -> 77
          [] f = "Sausage Biscuit" -> 129 [] f = "Lowfat Milk" -> 60
          [] f = "Orange Juice" -> 72]

DietV ==
    [f \in Range(DietF) |->
        CASE f = "Cheeseburger" -> 40 [] f = "Ham Sandwich" -> 75
          [] f = "Hamburger" -> 35 [] f = "Fish Sandwich" -> 50
          [] f = "Chicken Sandwich" -> 73 [] f = "Fries" -> 26
          [] f = "Sausage Biscuit" -> 41 [] f = "Lowfat Milk" -> 80
          [] f = "Orange Juice" -> 120]

DietNmin ==
    [j \in Range(DietN) |->
        CASE j = "Cal" -> 2000 [] j = "Carbo" -> 350 [] j = "Protein" -> 55
          [] OTHER -> 100]

\* only Carbo has an entry; the others are "." in the file
DietNmax == [j \in {"Carbo"} |-> 375]

\* rows in the order of DietF, columns in the order of DietN
DietaRows ==
    << <<510, 34, 28, 15,   6, 30, 20>>,
       <<370, 35, 24, 15,  10, 20, 20>>,
       <<500, 42, 25,  6,   2, 25, 20>>,
       <<370, 38, 14,  2,   0, 15, 10>>,
       <<400, 42, 31,  8,  15, 15,  8>>,
       <<220, 26,  3,  0,  15,  0,  2>>,
       <<345, 27, 15,  4,   0, 20, 15>>,
       <<110, 12,  9, 10,   4, 30,  0>>,
       << 80, 20,  1,  2, 120,  2,  2>> >>

Dieta ==
    [ij \in Range(DietF) \X Range(DietN) |->
        LET r == CHOOSE r \in DOMAIN DietF : DietF[r] = ij[1]
            q == CHOOSE q \in DOMAIN DietN : DietN[q] = ij[2]
        IN  DietaRows[r][q]]

\* a scalar Param's data is keyed by None; no entry at all is NoData
Scalar(v) == [k \in {"None"} |-> v]
NoData == [k \in {} |-> 0]

\* the function f held as the table of its values
Table(f) == f @@ NoData

DietTable ==
    [F |-> DietF, N |-> DietN, c |-> Dietc, a |-> Dieta, Nmin |-> DietNmin,
     Nmax |-> DietNmax, V |-> DietV, Vmax |-> Scalar(750)]

\* a second data file for the same model: two foods, one nutrient, and a
\* food name that holds the letter x
DietSmallTable ==
    [F |-> <<"Fries", "Texas Toast">>,
     N |-> <<"Cal">>,
     c |-> ("Fries" :> 77 @@ "Texas Toast" :> 50),
     a |-> (<<"Fries", "Cal">> :> 220 @@ <<"Texas Toast", "Cal">> :> 150),
     Nmin |-> ("Cal" :> 400),
     Nmax |-> NoData,
     V |-> ("Fries" :> 26 @@ "Texas Toast" :> 30),
     Vmax |-> Scalar(100)]

\* f restricted to the keys other than k: an entry left out of the data file
Without(f, k) == [e \in DOMAIN f \ {k} |-> f[e]]

\* The data files a run is tried on: the documented table, tables with one
\* value outside its Param's domain, tables with one entry left out, a
\* table whose volume limit no diet meets, and a second, small table.
DietDataChoices ==
    { DietTable,
      DietSmallTable,
      [DietTable EXCEPT !.c["Fries"] = -77],
      [DietTable EXCEPT !.c["Orange Juice"] = 0],
      [DietTable EXCEPT !.a[<<"Fries", "VitA">>] = -1],
      [DietTable EXCEPT !.Nmin["Cal"] = -2000],
      [DietTable EXCEPT !.Nmax["Carbo"] = -375],
      [DietTable EXCEPT !.V["Hamburger"] = 0],
      [DietTable EXCEPT !.Vmax = Scalar(-750)],
      [DietTable EXCEPT !.Vmax = Scalar(100)],
      [DietTable EXCEPT !.c = Without(Dietc, "Fries")],
      [DietTable EXCEPT !.a = Without(Dieta, <<"Fries", "VitA">>)],
      [DietTable EXCEPT !.V = Without(DietV, "Hamburger")],
      [DietTable EXCEPT !.Vmax = NoData],
      [DietTable EXCEPT !.Nmin = Without(DietNmin, "Iron"),
                        !.Vmax = Scalar(100)],
      [DietTable EXCEPT !.Nmax = NoData, !.Vmax = Scalar(100)],
      [DietTable EXCEPT !.c = Without(Dietc, "Fries"), !.V["Hamburger"] = 0] }

(***************************************************************************)
(* The diet model: declarations, rules                                     *)
(***************************************************************************)
\* the components in the order the notebook declares them, which is the
\* order create_instance constructs them in
DietDecls ==
    <<"F", "N", "c", "a", "Nmin", "Nmax", "V", "Vmax", "x", "cost",
      "nutrient_limit", "volume">>

DietWithin ==
    [c |-> "PositiveReals", a |-> "NonNegativeReals",
     Nmin |-> "NonNegativeReals", Nmax |-> "NonNegativeReals",
     V |-> "PositiveReals", Vmax |-> "PositiveReals"]

\* the index set of each Param, given the sets constructed so far
DietIndex(p, name) ==
    CASE name \in {"c", "V"} -> Range(p.F)
      [] name = "a" -> Range(p.F) \X Range(p.N)
      [] name \in {"Nmin", "Nmax"} -> Range(p.N)
      [] name = "Vmax" -> {"None"}

\* Nmax declared with the default of Nmin
DietBind_samedefault(p, name, supplied) ==
    CASE name = "Nmin" ->
            [k \in DietIndex(p, name) |->
                IF k \in DOMAIN supplied THEN supplied[k] ELSE 0]
      [] name = "Nmax" ->
            [k \in DietIndex(p, name) |->
                IF k \in DOMAIN supplied THEN Fin(supplied[k]) ELSE Fin(0)]
      [] OTHER ->
            [k \in DietIndex(p, name) \cap DOMAIN supplied |-> supplied[k]]

\* Params declared without default=
DietBind_nodefault(p, name, supplied) ==
    [k \in DietIndex(p, name) \cap DOMAIN supplied |->
        IF name = "Nmax" THEN Fin(supplied[k]) ELSE supplied[k]]

\* the values a Param holds once constructed: the supplied value, else the
\* default; an index with neither has no value
DietBind(p, name, supplied) ==
    CASE name = "Nmin" ->
            [k \in DietIndex(p, name) |->
                IF k \in DOMAIN supplied THEN supplied[k] ELSE 0]
      [] name = "Nmax" ->
            [k \in DietIndex(p, name) |->
                IF k \in DOMAIN supplied THEN Fin(supplied[k]) ELSE infinity]
      [] OTHER ->
            [k \in DietIndex(p, name) \cap DOMAIN supplied |-> supplied[k]]

\* a cost_rule that totals V[i] * x[i]
cost_rule_volume(p, x) == LET term_(i) == p.V[i] * x[i] IN SumOver(p.F, term_)

\* sum(model.c[i] * model.x[i] for i in model.F)
cost_rule(p, x) == LET term_(i) == p.c[i] * x[i] IN SumOver(p.F, term_)

\* value = sum(model.a[i, j] * model.x[i] for i in model.F)
nutrient_value(p, j, x) ==
    LET term_(i) == p.a[<<i, j>>] * x[i] IN SumOver(p.F, term_)

\* model.Nmin[j] <= value <= model.Nmax[j]
nutrient_rule(p, j, x) ==
    LET value_ == nutrient_value(p, j, x)
    IN  p.Nmin[j] <= value_ /\ LeqExt(value_, p.Nmax[j])

\* sum(model.V[i] * model.x[i] for i in model.F)
volume_value(p, x) == LET term_(i) == p.V[i] * x[i] IN SumOver(p.F, term_)

\* sum(model.V[i] * model.x[i] for i in model.F) <= model.Vmax
volume_rule(p, x) == volume_value(p, x) <= p.Vmax["None"]

\* every constraint of the instance holds of x
DietFeasible(p, x) ==
    /\ \A j \in Range(p.nutrient_limit) : nutrient_rule(p, j, x)
    /\ \A k \in Range(p.volume) : volume_rule(p, x)

\* the indices a component is constructed over: pyo.Constraint(model.N,
\* rule=...) has one instance per member of N, a component declared without
\* index set has the single index None
DietConstraintIndex(p, comp) ==
    CASE comp = "nutrient_limit" -> p.N
      [] OTHER -> <<"None">>

\* the (Param, index) pairs a rule reads while its component is constructed
DietReads(p, comp) ==
    CASE comp = "cost" -> {<<"c", i>> : i \in Range(p.F)}
      [] comp = "nutrient_limit" ->
            {<<"a", ij>> : ij \in Range(p.F) \X Range(p.N)}
            \cup {<<"Nmin", j>> : j \in Range(p.N)}
            \cup {<<"Nmax", j>> : j \in Range(p.N)}
      [] comp = "volume" ->
            {<<"V", i>> : i \in Range(p.F)} \cup {<<"Vmax", "None">>}
      [] OTHER -> {}

(***************************************************************************)
(* opt.solve on a diet instance.  Pyomo writes the instance as rows of a   *)
(* linear program (the coefficient of x[f] in a rule's sum is the sum with *)
(* one serving of f and nothing else) and GLPK returns a serving vector of *)
(* least cost among the non-negative integer vectors that meet every row,  *)
(* or reports the instance infeasible.  The search below visits every      *)
(* vector that stays within the rows' upper limits, which only grow with   *)
(* each serving added since a and V are non-negative.                      *)
(***************************************************************************)
Unit(p, f) == [g \in Range(p.F) |-> IF g = f THEN 1 ELSE 0]

\* one row per nutrient (Nmin[j] <= . <= Nmax[j]), then the volume row
\* (. <= Vmax); a side with no limit is infinity
DietRows(p) ==
    [n \in 1 .. Len(p.nutrient_limit) |->
        LET j == p.nutrient_limit[n]
        IN  [lo |-> Fin(p.Nmin[j]), hi |-> p.Nmax[j],
             coef |-> [k \in 1 .. Len(p.F) |->
                          nutrient_value(p, j, Unit(p, p.F[k]))]]]
    \o [n \in 1 .. Len(p.volume) |->
            [lo |-> infinity, hi |-> Fin(p.Vmax["None"]),
             coef |-> [k \in 1 .. Len(p.F) |->
                          volume_value(p, Unit(p, p.F[k]))]]]

DietObjective(p) == [k \in 1 .. Len(p.F) |-> cost_rule(p, Unit(p, p.F[k]))]

NoSolution == [found |-> FALSE, cost |-> 0, sols |-> {}]

\* the best of a set of search results: the least cost found, with every
\* vector attaining it
BestOf(results) ==
    LET hits == {r \in results : r.found}
    IN  IF hits = {} THEN NoSolution
        ELSE LET least == MinOf({r.cost : r \in hits})
             IN  [found |-> TRUE, cost |-> least,
                  sols |-> UNION {r.sols : r \in {h \in hits : h.cost = least}}]

\* xs: the servings of the first Len(xs) foods; tot[r]: the value of row r
\* for them; cost: their cost
RECURSIVE DietSearch(_, _, _, _, _)
DietSearch(rows, obj, xs, tot, cost) ==
    IF Len(xs) = Len(obj)
    THEN IF \A r \in DOMAIN rows :
                rows[r].lo = infinity \/ rows[r].lo[1] <= tot[r]
         THEN [found |-> TRUE, cost |-> cost, sols |-> {xs}]
         ELSE NoSolution
    ELSE LET k == Len(xs) + 1
             \* the servings of food k that no row's upper limit excludes
             most == MinOf({(rows[r].hi[1] - tot[r]) \div rows[r].coef[k] :
                             r \in {r \in DOMAIN rows :
                                       /\ rows[r].hi # infinity
                                       /\ rows[r].coef[k] > 0}})
         IN  BestOf({DietSearch(rows, obj, Append(xs, q),
                                [r \in DOMAIN rows |-> tot[r] + q * rows[r].coef[k]],
                                cost + q * obj[k]) : q \in 0 .. most})

\* the result of the solve: whether an optimum exists, its cost, and the
\* optimal serving vectors as functions of the food
DietSolve(p) ==
    LET r == DietSearch(DietRows(p), DietObjective(p), <<>>,
                        [n \in 1 .. Len(p.N) + 1 |-> 0], 0)
    IN  [found |-> r.found, cost |-> r.cost,
         sols |-> {[f \in Range(p.F) |->
                      xs[CHOOSE k \in DOMAIN p.F : p.F[k] = f]] : xs \in r.sols}]

(***************************************************************************)
(* Names: str(index) and v.name, as sequences of characters                *)
(***************************************************************************)
\* the characters of an index label
Chars(f) ==
    CASE
         f = "Cheeseburger" ->
            <<"C", "h", "e", "e", "s", "e", "b", "u", "r", "g", "e", "r">>
      [] f = "Ham Sandwich" ->
            <<"H", "a", "m", " ", "S", "a", "n", "d", "w", "i", "c", "h">>
      [] f = "Hamburger" ->
            <<"H", "a", "m", "b", "u", "r", "g", "e", "r">>
      [] f = "Fish Sandwich" ->
            <<"F", "i", "s", "h", " ", "S", "a", "n", "d", "w", "i", "c", "h">>
      [] f = "Chicken Sandwich" ->
            <<"C", "h", "i", "c", "k", "e", "n", " ", "S", "a", "n", "d", "w", "i", "c", "h">>
      [] f = "Fries" ->
            <<"F", "r", "i", "e", "s">>
      [] f = "Sausage Biscuit" ->
            <<"S", "a", "u", "s", "a", "g", "e", " ", "B", "i", "s", "c", "u", "i", "t">>
      [] f = "Lowfat Milk" ->
            <<"L", "o", "w", "f", "a", "t", " ", "M", "i", "l", "k">>
      [] f = "Orange Juice" ->
            <<"O", "r", "a", "n", "g", "e", " ", "J", "u", "i", "c", "e">>
      [] f = "Texas Toast" ->
            <<"T", "e", "x", "a", "s", " ", "T", "o", "a", "s", "t">>

DecimalDigit == <<"0", "1", "2", "3", "4", "5", "6", "7", "8", "9">>

\* str(n) for a natural number n
RECURSIVE Decimal(_)
Decimal(n) ==
    IF n < 10 THEN <<DecimalDigit[n + 1]>>
    ELSE Decimal(n \div 10) \o <<DecimalDigit[(n % 10) + 1]>>

\* v.name of the diet variable x[f]
DietVarName(f) == <<"x", "[">> \o Chars(f) \o <<"]">>

\* re.sub(r"[x\[|\]]", "", name): every x, [, | and ] is deleted
DietLabel(name) ==
    LET keep(ch) == ch \notin {"x", "[", "|", "]"} IN SelectSeq(name, keep)

(***************************************************************************)
(* The run of the diet notebook                                            *)
(***************************************************************************)
\* an error that is recorded while the run goes on
Fail_goes_on(kind) ==
    /\ stage' = stage
    /\ err' = kind

\* the exception ends the run of the notebook
Fail(kind) ==
    /\ stage' = "Failed"
    /\ err' = kind

DietNext_(comp) == built < Len(DietDecls) /\ DietDecls[built + 1] = comp

Built(decls) ==
    /\ built' = built + 1
    /\ stage' = IF built + 1 = Len(decls) THEN "Instantiated" ELSE stage

\* model.F, model.N: the Sets take the labels of the data file
DietConstructSet ==
    /\ nb = "diet" /\ stage = "Declared"
    /\ \E comp \in {"F", "N"} :
          /\ DietNext_(comp)
          /\ param' = param @@ (comp :> data[comp])
    /\ Built(DietDecls)
    /\ UNCHANGED <<prev, nb, data, value, term, objective, out, rpos, rng, err, res>>

\* a Param whose supplied values are all within its domain
DietConstructParam ==
    /\ nb = "diet" /\ stage = "Declared"
    /\ \E comp \in DOMAIN DietWithin :
          /\ DietNext_(comp)
          /\ \A k \in DOMAIN data[comp] : InDomain(DietWithin[comp], data[comp][k])
          /\ param' = param @@ (comp :> DietBind(param, comp, data[comp]))
    /\ Built(DietDecls)
    /\ UNCHANGED <<prev, nb, data, value, term, objective, out, rpos, rng, err, res>>

\* a Param with a supplied value outside its domain: create_instance raises
DietDomainError ==
    /\ nb = "diet" /\ stage = "Declared"
    /\ \E comp \in DOMAIN DietWithin :
          /\ DietNext_(comp)
          /\ \E k \in DOMAIN data[comp] : ~InDomain(DietWithin[comp], data[comp][k])
    /\ Fail("DomainError")
    /\ UNCHANGED <<prev, nb, data, built, param, value, term, objective, out, rpos, rng, res>>

\* model.x: the variables exist and have no value
DietConstructVar ==
    /\ nb = "diet" /\ stage = "Declared"
    /\ DietNext_("x")
    /\ Built(DietDecls)
    /\ UNCHANGED <<prev, nb, data, param, value, term, objective, out, rpos, rng, err, res>>

DietUnbound(comp) ==
    {pk \in DietReads(param, comp) : pk[2] \notin DOMAIN param[pk[1]]}

\* the objective and the constraints: the rule is evaluated at every index
DietConstructRule ==
    /\ nb = "diet" /\ stage = "Declared"
    /\ \E comp \in {"cost", "nutrient_limit", "volume"} :
          /\ DietNext_(comp)
          /\ DietUnbound(comp) = {}
          /\ param' = param @@ (comp :> DietConstraintIndex(param, comp))
    /\ Built(DietDecls)
    /\ UNCHANGED <<prev, nb, data, value, term, objective, out, rpos, rng, err, res>>

\* a rule reads a Param entry that has neither a value nor a default
DietMissingData ==
    /\ nb = "diet" /\ stage = "Declared"
    /\ \E comp \in {"cost", "nutrient_limit", "volume"} :
          /\ DietNext_(comp)
          /\ DietUnbound(comp) # {}
    /\ Fail("MissingDataError")
    /\ UNCHANGED <<prev, nb, data, built, param, value, term, objective, out, rpos, rng, res>>

\* solution = opt.solve(instance): with the termination condition optimal
\* the variables take the values of one optimal vector, otherwise the call
\* returns and the variables keep having no value
DietSolveCall ==
    /\ nb = "diet" /\ stage = "Instantiated" /\ term = "none"
    /\ LET r == DietSolve(param)
       IN  IF r.found
           THEN /\ \E x \in r.sols :
                      /\ value' = x
                      /\ objective' = <<cost_rule(param, x)>>
                /\ term' = "optimal"
                /\ stage' = "Solved"
           ELSE /\ term' = "infeasible"
                /\ UNCHANGED <<stage, value, objective>>
    /\ UNCHANGED <<prev, nb, data, built, param, out, rpos, rng, err, res>>

\* pyo.value(v) of the objective raises while the variables have no value
DietReportError ==
    /\ nb = "diet" /\ stage = "Instantiated" /\ term = "infeasible"
    /\ Fail("SolveError")
    /\ UNCHANGED <<prev, nb, data, built, param, value, term, objective, out, rpos, rng, res>>

\* print(f"{v.name}: ${pyo.value(v)}") for the objective
DietReportObjective ==
    /\ nb = "diet" /\ stage = "Solved" /\ rpos = 0
    /\ out' = Append(out, [label |-> <<"c", "o", "s", "t">>, val |-> objective[1]])
    /\ rpos' = 1
    /\ UNCHANGED <<prev, nb, stage, data, built, param, value, term, objective, rng, err, res>>

\* a reporter that keeps the variables at zero as well
DietShown_zero(val) == val >= 0

\* if v.value > 0
DietShown(val) == val > 0

\* one turn of the loop over the variables, in the order of F
DietReportVar ==
    /\ nb = "diet" /\ stage = "Solved" /\ rpos \in 1 .. Len(param.F)
    /\ LET f == param.F[rpos]
       IN  out' = IF DietShown(value[f])
                  THEN Append(out, [label |-> DietLabel(DietVarName(f)),
                                    val |-> value[f]])
                  ELSE out
    /\ rpos' = rpos + 1
    /\ stage' = IF rpos = Len(param.F) THEN "Reported" ELSE stage
    /\ UNCHANGED <<prev, nb, data, built, param, value, term, objective, rng, err, res>>

NextDiet ==
    \/ DietConstructSet
    \/ DietConstructParam
    \/ DietDomainError
    \/ DietConstructVar
    \/ DietConstructRule
    \/ DietMissingData
    \/ DietSolveCall
    \/ DietReportError
    \/ DietReportObjective
    \/ DietReportVar

(***************************************************************************)
(* The p-median problem                                                    *)
(***************************************************************************)
\* random.seed(1000): the values random.uniform(1.0, 2.0) returns, in the
\* order of the calls, in thousandths
UniformStream ==
    <<
       1777, 1670, 1099, 1353, 1468, 1535, 1978, 1130, 1671, 1364,
       1489, 1203, 1666, 1228, 1458, 1041, 1974, 1487, 1462, 1714,
       1416, 1888, 1023, 1834, 1468, 1811, 1946, 1983, 1176, 1699,
       1109, 1160, 1093, 1314, 1017, 1854, 1291, 1780, 1548, 1194,
       1292, 1319, 1659, 1232, 1619, 1895, 1869, 1294, 1458, 1485,
       1280, 1329, 1984, 1012, 1143, 1652, 1075, 1292, 1793, 1912,
       1370, 1205, 1880, 1633, 1504, 1331, 1347, 1292, 1765, 1478,
       1202, 1872, 1755, 1868, 1932, 1242, 1892, 1766, 1415, 1324,
       1561, 1591, 1166, 1486, 1949, 1468, 1397, 1919, 1986, 1939,
       1048, 1860, 1201, 1344, 1883, 1098, 1133, 1268, 1209, 1341,
       1727, 1632, 1159, 1766, 1924, 1591, 1169, 1489, 1718, 1216,
       1612, 1620, 1238, 1144, 1772, 1531, 1439, 1478, 1784, 1837,
       1406, 1774, 1003, 1877, 1032, 1982, 1995, 1606, 1889, 1676,
       1069, 1700, 1999, 1718, 1219, 1422, 1866, 1795, 1214, 1821,
       1339, 1009, 1934, 1582, 1742, 1140, 1545, 1924, 1150, 1972,
       1621, 1725, 1692, 1764, 1196, 1603, 1236, 1108, 1313, 1910,
       1941, 1485, 1616, 1181, 1290, 1646, 1285, 1765, 1825, 1450,
       1405, 1170, 1226, 1826, 1260, 1076, 1738, 1805, 1856, 1755,
       1145, 1479, 1439, 1508, 1704, 1688, 1706, 1945, 1804, 1774,
       1425, 1833, 1966, 1680, 1088, 1663, 1516, 1214, 1374, 1779,
       1666, 1410, 1696, 1741, 1447, 1900, 1448, 1189, 1865, 1751,
       1712, 1802, 1816, 1060, 1265, 1760, 1030, 1752, 1234, 1977,
       1501, 1975, 1295, 1966, 1312, 1076, 1494, 1436, 1360, 1126,
       1877, 1208, 1425, 1416, 1044, 1658, 1221, 1350, 1541, 1435 >>

\* the assignment fractions x[i,j] are kept in units of 1/Den
Den == 2

PMTable ==
    [m |-> Scalar(10), n |-> Scalar(6), p |-> Scalar(3), d |-> NoData,
     c |-> NoData]

\* The data dictionaries a run is tried on: the documented one, smaller
\* instances, values outside a Param's domain, entries left out.
PMDataChoices ==
    { PMTable,
      [PMTable EXCEPT !.m = Scalar(3), !.n = Scalar(2), !.p = Scalar(1)],
      [PMTable EXCEPT !.m = Scalar(2), !.n = Scalar(2), !.p = Scalar(2)],
      [PMTable EXCEPT !.m = Scalar(2)],
      [PMTable EXCEPT !.m = Scalar(0)],
      [PMTable EXCEPT !.n = Scalar(-1)],
      [PMTable EXCEPT !.p = Scalar(0)],
      [PMTable EXCEPT !.p = Scalar(7)],
      [PMTable EXCEPT !.m = NoData],
      [PMTable EXCEPT !.n = NoData],
      [PMTable EXCEPT !.p = NoData] }

PMDecls ==
    <<"m", "n", "M", "N", "p", "d", "c", "x", "y", "cost", "demand",
      "facilities", "openfac">>

\* within=..., for the Params that are validated against a fixed set
PMWithin ==
    [m |-> "PositiveIntegers", n |-> "PositiveIntegers", c |-> "Reals"]

\* pyo.RangeSet(1, k), in order
RangeSet(k) == [e \in 1 .. k |-> e]

\* sum(d[j] * c[i, j] * x[i, j] for i in M for j in N)
cost_(p, x) ==
    LET row_(i) == LET term_(j) == p.d[j] * p.c[<<i, j>>] * x[<<i, j>>]
                   IN  SumOver(p.N, term_)
    IN  SumOver(p.M, row_)

\* a demand that may be left partly unserved
demand_atmost(p, x, j) ==
    LET term_(i) == x[<<i, j>>] IN SumOver(p.M, term_) <= Den

\* sum(model.x[i, j] for i in model.M) == 1.0
demand_(p, x, j) == LET term_(i) == x[<<i, j>>] IN SumOver(p.M, term_) = Den

\* a facility count that is only bounded from below
facilities_atleast(p, y) ==
    LET term_(i) == y[i] IN SumOver(p.M, term_) >= p.p["None"]

\* sum(model.y[i] for i in model.M) == model.p
facilities_(p, y) == LET term_(i) == y[i] IN SumOver(p.M, term_) = p.p["None"]

\* an assignment bounded by 1 instead of by y[i]
openfac_unlinked(p, x, y, i, j) == x[<<i, j>>] <= Den

\* model.x[i, j] <= model.y[i]
openfac_(p, x, y, i, j) == x[<<i, j>>] <= Den * y[i]

PMFeasible(p, x, y) ==
    /\ \A j \in Range(p.demand) : demand_(p, x, j)
    /\ \A k \in Range(p.facilities) : facilities_(p, y)
    /\ \A ij \in Range(p.openfac) : openfac_(p, x, y, ij[1], ij[2])

\* openfac declared over N and N
PMConstraintIndex_NN(p, comp) ==
    CASE comp = "demand" -> p.N
      [] comp = "openfac" ->
            [n \in 1 .. Len(p.N) * Len(p.N) |->
                <<p.N[((n - 1) \div Len(p.N)) + 1], p.N[((n - 1) % Len(p.N)) + 1]>>]
      [] OTHER -> <<"None">>

\* the indices a component is constructed over: demand over N, openfac
\* over M x N row by row, the others the single index None
PMConstraintIndex(p, comp) ==
    CASE comp = "demand" -> p.N
      [] comp = "openfac" ->
            [n \in 1 .. Len(p.M) * Len(p.N) |->
                <<p.M[((n - 1) \div Len(p.N)) + 1], p.N[((n - 1) % Len(p.N)) + 1]>>]
      [] OTHER -> <<"None">>

(***************************************************************************)
(* opt.solve on a p-median instance: GLPK returns values of least cost     *)
(* among those that meet every constraint, the bounds of x and the binary  *)
(* domain of y, or reports the instance infeasible.  The cost is a sum     *)
(* over the demand nodes and no constraint links two nodes but through y,  *)
(* so for each y the best columns of x are found node by node.             *)
(***************************************************************************)
\* the columns x[., j]: Den units of demand, each given to a site or to none
\* (no entry exceeds the bound 1.0, and no column of a larger sum meets
\* demand_)
PMColumns(p) ==
    LET M == Range(p.M)
    IN  {[i \in M |-> Cardinality({t \in 1 .. Den : u[t] = i})] :
            u \in [1 .. Den -> M \cup {0}]}

\* x with the column col for node j and no other column
PMColumn(p, j, col) == [ij \in Range(p.M) \X {j} |-> col[ij[1]]]

\* x with the column col for node j and 0 elsewhere
PMOnly(p, j, col) ==
    [ij \in Range(p.M) \X Range(p.N) |-> IF ij[2] = j THEN col[ij[1]] ELSE 0]

RECURSIVE PMCombine(_, _, _)
PMCombine(p, arg, n) ==
    IF n = 0 THEN {NoData}
    ELSE {x @@ col : x \in PMCombine(p, arg, n - 1), col \in arg[p.N[n]]}

PMSolve(p) ==
    LET M == Range(p.M)
        N == Range(p.N)
        \* the columns of node j that meet demand_, each with its cost
        served == Table([j \in N |->
                    {c \in {[x |-> PMColumn(p, j, col),
                             cost |-> cost_(p, PMOnly(p, j, col))] :
                                col \in PMColumns(p)} :
                        j \in Range(p.demand) => demand_(p, c.x, j)}])
        ys == {y \in [M -> {0, 1}] :
                \A k \in Range(p.facilities) : facilities_(p, y)}
        linked == Range(p.openfac)
        \* the columns of node j that meet openfac_ as well under y
        fits == Table([yj \in ys \X N |->
                    {c \in served[yj[2]] :
                        \A i \in M :
                            <<i, yj[2]>> \in linked
                                => openfac_(p, c.x, yj[1], i, yj[2])}])
        open == {y \in ys : \A j \in N : fits[<<y, j>>] # {}}
        least == Table([yj \in open \X N |-> MinOf({c.cost : c \in fits[yj]})])
        ycost == Table([y \in open |->
                    LET term_(j) == least[<<y, j>>] IN SumOver(p.N, term_)])
        best == {y \in open : \A z \in open : ycost[y] <= ycost[z]}
        arg(y) == [j \in N |->
                    {c.x : c \in {d \in fits[<<y, j>>] :
                                    d.cost = least[<<y, j>>]}}]
    IN  [found |-> open # {},
         sols |-> UNION {{[x |-> x, y |-> y] : x \in PMCombine(p, arg(y), Len(p.N))} :
                            y \in best}]

(***************************************************************************)
(* The string operations of the reporters                                  *)
(***************************************************************************)
IsPrefix(pat, s) == Len(pat) <= Len(s) /\ SubSeq(s, 1, Len(pat)) = pat

\* s.replace(pat, ""): every occurrence of pat, left to right, is removed
RECURSIVE Remove(_, _)
Remove(s, pat) ==
    IF s = <<>> THEN <<>>
    ELSE IF IsPrefix(pat, s) THEN Remove(SubSeq(s, Len(pat) + 1, Len(s)), pat)
    ELSE <<Head(s)>> \o Remove(Tail(s), pat)

\* s.split(sep) for a one-character sep
RECURSIVE Split(_, _)
Split(s, sep) ==
    IF \A n \in DOMAIN s : s[n] # sep THEN <<s>>
    ELSE LET n == CHOOSE n \in DOMAIN s :
                    s[n] = sep /\ \A k \in 1 .. n - 1 : s[k] # sep
         IN  <<SubSeq(s, 1, n - 1)>> \o Split(SubSeq(s, n + 1, Len(s)), sep)

IsDigit(ch) == ch \in Range(DecimalDigit)

DigitValue(ch) == (CHOOSE n \in DOMAIN DecimalDigit : DecimalDigit[n] = ch) - 1

\* int(s) for a string of digits
RECURSIVE int(_)
int(s) ==
    IF Len(s) = 1 THEN DigitValue(s[1])
    ELSE 10 * int(SubSeq(s, 1, Len(s) - 1)) + DigitValue(s[Len(s)])

\* re.findall("[0-9]+", s): the maximal runs of digits, left to right
RECURSIVE FindAllNumbers(_)
FindAllNumbers(s) ==
    IF s = <<>> THEN <<>>
    ELSE IF ~IsDigit(Head(s)) THEN FindAllNumbers(Tail(s))
    ELSE LET stop == IF \A n \in DOMAIN s : IsDigit(s[n]) THEN Len(s) + 1
                     ELSE CHOOSE n \in DOMAIN s :
                            ~IsDigit(s[n]) /\ \A k \in 1 .. n - 1 : IsDigit(s[k])
         IN  <<SubSeq(s, 1, stop - 1)>> \o FindAllNumbers(SubSeq(s, stop, Len(s)))

\* re.findall("[0-9]", s): the digits, one by one
FindAllDigits(s) == LET d(ch) == IsDigit(ch) IN SelectSeq(s, d)

\* ch in s
Contains(s, ch) == \E n \in DOMAIN s : s[n] = ch

(***************************************************************************)
(* The run of the p-median notebook                                        *)
(***************************************************************************)
PMNext_(comp) == built < Len(PMDecls) /\ PMDecls[built + 1] = comp

\* the supplied values of a Param that its domain excludes
PMOutside(p, comp) ==
    {k \in DOMAIN data[comp] :
        IF comp = "p"
        THEN data[comp][k] \notin Range(RangeSet(p.n["None"]))
        ELSE comp \in DOMAIN PMWithin /\ ~InDomain(PMWithin[comp], data[comp][k])}

\* the values of a Param once constructed; c is filled by its initializer,
\* one call of random.uniform per index, row by row
PMBind(p, comp) ==
    CASE comp = "d" ->
            [j \in Range(p.N) |->
                IF j \in DOMAIN data.d THEN data.d[j] ELSE 1]
      [] comp = "c" ->
            [ij \in Range(p.M) \X Range(p.N) |->
                UniformStream[rng + (ij[1] - 1) * Len(p.N) + ij[2]]]
      [] OTHER -> data[comp]

\* m, n, p, d, c with every supplied value within the domain
PMConstructParam ==
    /\ nb = "pmedian" /\ stage = "Declared"
    /\ \E comp \in {"m", "n", "p", "d", "c"} :
          /\ PMNext_(comp)
          /\ PMOutside(param, comp) = {}
          /\ param' = param @@ (comp :> PMBind(param, comp))
          /\ rng' = IF comp = "c" THEN rng + Len(param.M) * Len(param.N) ELSE rng
    /\ Built(PMDecls)
    /\ UNCHANGED <<prev, nb, data, value, term, objective, out, rpos, err, res>>

\* a supplied value outside the domain: create_instance raises
PMDomainError ==
    /\ nb = "pmedian" /\ stage = "Declared"
    /\ \E comp \in {"m", "n", "p", "d", "c"} :
          /\ PMNext_(comp)
          /\ PMOutside(param, comp) # {}
    /\ Fail("DomainError")
    /\ UNCHANGED <<prev, nb, data, built, param, value, term, objective, out, rpos, rng, res>>

\* the Param a component reads the value of while it is constructed
PMReads(comp) ==
    CASE comp = "M" -> {"m"}
      [] comp = "N" -> {"n"}
      [] comp = "facilities" -> {"p"}
      [] OTHER -> {}

PMUnbound(comp) == {name \in PMReads(comp) : "None" \notin DOMAIN param[name]}

\* model.M = RangeSet(1, model.m), model.N = RangeSet(1, model.n)
PMConstructSet ==
    /\ nb = "pmedian" /\ stage = "Declared"
    /\ \E comp \in {"M", "N"} :
          /\ PMNext_(comp)
          /\ PMUnbound(comp) = {}
          /\ param' = param @@
                (comp :> RangeSet(param[IF comp = "M" THEN "m" ELSE "n"]["None"]))
    /\ Built(PMDecls)
    /\ UNCHANGED <<prev, nb, data, value, term, objective, out, rpos, rng, err, res>>

\* model.x, model.y: the variables exist and have no value
PMConstructVar ==
    /\ nb = "pmedian" /\ stage = "Declared"
    /\ \E comp \in {"x", "y"} : PMNext_(comp)
    /\ Built(PMDecls)
    /\ UNCHANGED <<prev, nb, data, param, value, term, objective, out, rpos, rng, err, res>>

\* the objective and the constraints
PMConstructRule ==
    /\ nb = "pmedian" /\ stage = "Declared"
    /\ \E comp \in {"cost", "demand", "facilities", "openfac"} :
          /\ PMNext_(comp)
          /\ PMUnbound(comp) = {}
          /\ param' = param @@ (comp :> PMConstraintIndex(param, comp))
    /\ Built(PMDecls)
    /\ UNCHANGED <<prev, nb, data, value, term, objective, out, rpos, rng, err, res>>

\* a component reads m, n or p and the data has no value for it
PMMissingData ==
    /\ nb = "pmedian" /\ stage = "Declared"
    /\ \E comp \in {"M", "N", "facilities"} :
          /\ PMNext_(comp)
          /\ PMUnbound(comp) # {}
    /\ Fail("MissingDataError")
    /\ UNCHANGED <<prev, nb, data, built, param, value, term, objective, out, rpos, rng, res>>

\* a solve call that loads values whatever the termination condition
PMSolveCall_loads ==
    /\ nb = "pmedian" /\ stage = "Instantiated" /\ term = "none"
    /\ LET r == PMSolve(param)
       IN  IF r.found
           THEN /\ \E v \in r.sols :
                      /\ value' = v
                      /\ objective' = <<cost_(param, v.x)>>
                /\ term' = "optimal"
                /\ stage' = "Solved"
           ELSE /\ term' = "infeasible"
                /\ value' = [x |-> [ij \in Range(param.M) \X Range(param.N) |-> 0],
                             y |-> [i \in Range(param.M) |-> 0]]
                /\ UNCHANGED <<stage, objective>>
    /\ UNCHANGED <<prev, nb, data, built, param, out, rpos, rng, err, res>>

\* solution = opt.solve(instance)
PMSolveCall ==
    /\ nb = "pmedian" /\ stage = "Instantiated" /\ term = "none"
    /\ LET r == PMSolve(param)
       IN  IF r.found
           THEN /\ \E v \in r.sols :
                      /\ value' = v
                      /\ objective' = <<cost_(param, v.x)>>
                /\ term' = "optimal"
                /\ stage' = "Solved"
           ELSE /\ term' = "infeasible"
                /\ UNCHANGED <<stage, value, objective>>
    /\ UNCHANGED <<prev, nb, data, built, param, out, rpos, rng, err, res>>

\* pyo.value(o) of the objective raises while the variables have no value
PMReportError ==
    /\ nb = "pmedian" /\ stage = "Instantiated" /\ term = "infeasible"
    /\ Fail("SolveError")
    /\ UNCHANGED <<prev, nb, data, built, param, value, term, objective, out, rpos, rng, res>>

\* print(f"{o}: {pyo.value(o):.5f}")
PMReportObjective ==
    /\ nb = "pmedian" /\ stage = "Solved" /\ rpos = 0
    /\ out' = Append(out, [kind |-> "objective", val |-> objective[1]])
    /\ rpos' = 1
    /\ UNCHANGED <<prev, nb, stage, data, built, param, value, term, objective, rng, err, res>>

\* component_data_objects(pyo.Var): x row by row, then y
PMVars(p) ==
    [n \in 1 .. Len(p.M) * Len(p.N) |->
        <<"x", ((n - 1) \div Len(p.N)) + 1, ((n - 1) % Len(p.N)) + 1>>]
    \o [n \in 1 .. Len(p.M) |-> <<"y", n>>]

\* v.name
PMVarName(v) ==
    IF v[1] = "x"
    THEN <<"x", "[">> \o Decimal(v[2]) \o <<",">> \o Decimal(v[3]) \o <<"]">>
    ELSE <<"y", "[">> \o Decimal(v[2]) \o <<"]">>

\* pyo.value(v)
PMValue(val, v) == IF v[1] = "x" THEN val.x[<<v[2], v[3]>>] ELSE val.y[v[2]]

\* the line print_x_result prints: customer j, facility i, val
print_x_result(name, val) ==
    LET ij == Split(Remove(Remove(name, <<"x", "[">>), <<"]">>), ",")
    IN  [kind |-> "assignment", customer |-> int(ij[2]), facility |-> int(ij[1]),
         val |-> val]

\* the line print_y_result prints: the first number in the name
print_y_result(name, val) ==
    [kind |-> "facility", location |-> FindAllNumbers(name)[1]]

\* a loop that lets the variables at zero through as well
PMShown_zero(val) == val >= 0

\* if value > 0
PMShown(val) == val > 0

\* one turn of the loop over the variables
PMReportVar ==
    /\ nb = "pmedian" /\ stage = "Solved" /\ rpos \in 1 .. Len(PMVars(param))
    /\ LET v == PMVars(param)[rpos]
           name == PMVarName(v)
           val == PMValue(value, v)
       IN  out' = IF PMShown(val)
                  THEN IF Contains(name, "x")
                       THEN Append(out, print_x_result(name, val))
                       ELSE IF Contains(name, "y")
                       THEN Append(out, print_y_result(name, val))
                       ELSE out
                  ELSE out
    /\ rpos' = rpos + 1
    /\ stage' = IF rpos = Len(PMVars(param)) THEN "Reported" ELSE stage
    /\ UNCHANGED <<prev, nb, data, built, param, value, term, objective, rng, err, res>>

NextPMedian ==
    \/ PMConstructParam
    \/ PMDomainError
    \/ PMConstructSet
    \/ PMConstructVar
    \/ PMConstructRule
    \/ PMMissingData
    \/ PMSolveCall
    \/ PMReportError
    \/ PMReportObjective
    \/ PMReportVar

(***************************************************************************)
(* Sudoku                                                                  *)
(***************************************************************************)
\* np.arange(a, b, step), in order
arange(a, b, step) ==
    [n \in 1 .. (IF b > a THEN (b - a + step - 1) \div step ELSE 0) |->
        a + (n - 1) * step]

\* N = np.arange(1, 9 + 1)
SudokuN == arange(1, 9 + 1, 1)

\* known_cells, one (i, j, k) per row of the frame
known_cells ==
    <<
       <<1, 7, 2>>, <<2, 2, 8>>, <<2, 6, 7>>, <<2, 8, 9>>,
       <<3, 1, 6>>, <<3, 3, 2>>, <<3, 7, 5>>, <<4, 2, 7>>,
       <<4, 5, 6>>, <<5, 4, 9>>, <<5, 6, 1>>, <<6, 5, 2>>,
       <<6, 8, 4>>, <<7, 3, 5>>, <<7, 7, 6>>, <<7, 9, 3>>,
       <<8, 2, 9>>, <<8, 4, 4>>, <<8, 8, 7>>, <<9, 3, 6>> >>

\* a second puzzle: the solved grid with the cells (1,3), (1,6), (2,3), (2,6)
\* left open, which can be filled 7, 3, 3, 7 or 3, 7, 7, 3
known_cells_two ==
    <<
       <<1, 1, 9>>, <<1, 2, 5>>, <<1, 4, 6>>, <<1, 5, 1>>, <<1, 7, 2>>, <<1, 8, 8>>, <<1, 9, 4>>,
       <<2, 1, 4>>, <<2, 2, 8>>, <<2, 4, 2>>, <<2, 5, 5>>, <<2, 7, 1>>, <<2, 8, 9>>, <<2, 9, 6>>,
       <<3, 1, 6>>, <<3, 2, 1>>, <<3, 3, 2>>, <<3, 4, 8>>, <<3, 5, 4>>, <<3, 6, 9>>, <<3, 7, 5>>, <<3, 8, 3>>, <<3, 9, 7>>,
       <<4, 1, 1>>, <<4, 2, 7>>, <<4, 3, 8>>, <<4, 4, 3>>, <<4, 5, 6>>, <<4, 6, 4>>, <<4, 7, 9>>, <<4, 8, 5>>, <<4, 9, 2>>,
       <<5, 1, 5>>, <<5, 2, 2>>, <<5, 3, 4>>, <<5, 4, 9>>, <<5, 5, 7>>, <<5, 6, 1>>, <<5, 7, 3>>, <<5, 8, 6>>, <<5, 9, 8>>,
       <<6, 1, 3>>, <<6, 2, 6>>, <<6, 3, 9>>, <<6, 4, 5>>, <<6, 5, 2>>, <<6, 6, 8>>, <<6, 7, 7>>, <<6, 8, 4>>, <<6, 9, 1>>,
       <<7, 1, 8>>, <<7, 2, 4>>, <<7, 3, 5>>, <<7, 4, 7>>, <<7, 5, 9>>, <<7, 6, 2>>, <<7, 7, 6>>, <<7, 8, 1>>, <<7, 9, 3>>,
       <<8, 1, 2>>, <<8, 2, 9>>, <<8, 3, 1>>, <<8, 4, 4>>, <<8, 5, 3>>, <<8, 6, 6>>, <<8, 7, 8>>, <<8, 8, 7>>, <<8, 9, 5>>,
       <<9, 1, 7>>, <<9, 2, 3>>, <<9, 3, 6>>, <<9, 4, 1>>, <<9, 5, 8>>, <<9, 6, 5>>, <<9, 7, 4>>, <<9, 8, 2>>, <<9, 9, 9>> >>

\* the results of body, in the order of: for a in A: for b in B
Loop2(A, B, body(_, _)) ==
    [n \in 1 .. Len(A) * Len(B) |->
        body(A[((n - 1) \div Len(B)) + 1], B[((n - 1) % Len(B)) + 1])]

\* for a in A: for b in B: for c in C
Loop3(A, B, C, body(_, _, _)) ==
    [n \in 1 .. Len(A) * Len(B) * Len(C) |->
        body(A[((n - 1) \div (Len(B) * Len(C))) + 1],
             B[(((n - 1) \div Len(C)) % Len(B)) + 1],
             C[((n - 1) % Len(C)) + 1])]

\* the indices of model.X = pyo.Var(N, N, N, within=pyo.Binary)
SudokuX == Range(SudokuN) \X Range(SudokuN) \X Range(SudokuN)

\* Every constraint of the model is "the sum of these variables == 1"; a
\* constraint is kept as the set of the variables it sums.

\* for i in N: for k in N: sum(model.X[i, j, k] for j in N) == 1
row_constraint ==
    LET body(i, k) == {<<i, j, k>> : j \in Range(SudokuN)}
    IN  Loop2(SudokuN, SudokuN, body)

\* for j in N: for k in N: sum(model.X[i, j, k] for i in N) == 1
col_constraint ==
    LET body(j, k) == {<<i, j, k>> : i \in Range(SudokuN)}
    IN  Loop2(SudokuN, SudokuN, body)

\* blocks summed over np.arange(i, i + 2) and np.arange(j, j + 2)
block_constraint_short ==
    LET body(i, j, k) ==
            {<<p, q, k>> : p \in Range(arange(i, i + 2, 1)),
                           q \in Range(arange(j, j + 2, 1))}
    IN  Loop3(arange(1, 9, 3), arange(1, 9, 3), SudokuN, body)

\* for i in np.arange(1, 9, 3): for j in np.arange(1, 9, 3): for k in N:
\*   sum(X[p, q, k] for p in np.arange(i, i + 3) for q in np.arange(j, j + 3)) == 1
block_constraint ==
    LET body(i, j, k) ==
            {<<p, q, k>> : p \in Range(arange(i, i + 3, 1)),
                           q \in Range(arange(j, j + 3, 1))}
    IN  Loop3(arange(1, 9, 3), arange(1, 9, 3), SudokuN, body)

\* for i in N: for j in N: sum(model.X[i, j, k] for k in N) == 1
allcells_constraint ==
    LET body(i, j) == {<<i, j, k>> : k \in Range(SudokuN)}
    IN  Loop2(SudokuN, SudokuN, body)

\* known cells read as (column, row, value)
knowncells_transposed(known) ==
    [n \in DOMAIN known |-> {<<known[n][2], known[n][1], known[n][3]>>}]

\* for i, j, k in zip(...): model.X[i, j, k] == 1
knowncells_constraint(known) == [n \in DOMAIN known |-> {known[n]}]

SudokuDecls ==
    <<"X", "row_constraint", "col_constraint", "block_constraint",
      "allcells_constraint", "knowncells_constraint", "objective">>

SudokuLists ==
    {"row_constraint", "col_constraint", "block_constraint",
     "allcells_constraint", "knowncells_constraint"}

\* the constraints of the instance, as one set
SudokuConstraints(p) == UNION {Range(p[name]) : name \in SudokuLists}

\* X meets every constraint of the instance
SudokuFeasible(p, X) ==
    \A con \in SudokuConstraints(p) :
        LET term_(v) == X[v] IN SumOver(SetToSeq(con), term_) = 1

(***************************************************************************)
(* opt.solve on the Sudoku model: GLPK returns binary values that meet     *)
(* every constraint (the objective is the same for all), or reports the    *)
(* model infeasible.  The search gives value 1 to the variables that are   *)
(* the last candidate of a constraint, all at once; when there is none it  *)
(* takes a constraint none of whose variables is 1 yet and tries each of   *)
(* its variables that no constraint already met excludes.                  *)
(***************************************************************************)
\* ones: the variables given 1; shut: the variables of the constraints
\* already met; open: the constraints not yet met
RECURSIVE SudokuSearch(_, _, _, _)
SudokuSearch(cons, ones, shut, open) ==
    IF open = {} THEN {ones}
    ELSE IF \E c \in open : c \ shut = {} THEN {}
    ELSE LET \* the variables that are the last candidate of a constraint
             forced == UNION {c \ shut : c \in {d \in open : Cardinality(d \ shut) = 1}}
         IN  IF forced # {}
             THEN IF \E c \in cons : Cardinality(c \cap forced) > 1 THEN {}
                  ELSE SudokuSearch(cons,
                          {u : u \in ones \cup forced},
                          {u : u \in shut \cup UNION {c \in cons : c \cap forced # {}}},
                          {c : c \in {d \in open : d \cap forced = {}}})
             ELSE LET least == MinOf({Cardinality(c \ shut) : c \in open})
                      con == CHOOSE c \in open : Cardinality(c \ shut) = least
                  IN  UNION {SudokuSearch(cons,
                                {u : u \in ones \cup {v}},
                                {u : u \in shut \cup UNION {c \in cons : v \in c}},
                                {c : c \in {d \in open : v \notin d}}) :
                                    v \in con \ shut}

\* the assignments of X that meet every constraint; a variable that is in
\* no constraint is free to be 0 or 1
SudokuAssignments(p) ==
    LET cons == SudokuConstraints(p)
        free == SudokuX \ UNION cons
    IN  {[v \in SudokuX |-> IF v \in ones \cup extra THEN 1 ELSE 0] :
            ones \in SudokuSearch(cons, {}, {}, cons), extra \in SUBSET free}

\* an objective that counts one of the variables
SudokuObjective_cell(p, X) == p.objective + X[<<1, 3, 7>>]

\* the value of model.objective under X: expr=1 holds no variable
SudokuObjective(p, X) == p.objective

\* opt.solve: the assignments of least objective among those that meet
\* every constraint
SudokuSolve(p) ==
    LET feas == SudokuAssignments(p)
        cost == Table([X \in feas |-> SudokuObjective(p, X)])
    IN  {X \in feas : \A Z \in feas : cost[X] <= cost[Z]}

(***************************************************************************)
(* The run of the Sudoku notebook                                          *)
(***************************************************************************)
SudokuNext_(comp) == built < Len(SudokuDecls) /\ SudokuDecls[built + 1] = comp

\* model.X = pyo.Var(...): a ConcreteModel constructs as it declares
SudokuDeclareVar ==
    /\ nb = "sudoku" /\ stage = "Declared"
    /\ SudokuNext_("X")
    /\ Built(SudokuDecls)
    /\ UNCHANGED <<prev, nb, data, param, value, term, objective, out, rpos, rng, err, res>>

\* the five ConstraintLists, filled by their loops
SudokuDeclareConstraints ==
    /\ nb = "sudoku" /\ stage = "Declared"
    /\ \E comp \in SudokuLists :
          /\ SudokuNext_(comp)
          /\ param' = param @@
                (comp :> CASE comp = "row_constraint" -> row_constraint
                           [] comp = "col_constraint" -> col_constraint
                           [] comp = "block_constraint" -> block_constraint
                           [] comp = "allcells_constraint" -> allcells_constraint
                           [] comp = "knowncells_constraint" ->
                                knowncells_constraint(data))
    /\ Built(SudokuDecls)
    /\ UNCHANGED <<prev, nb, data, value, term, objective, out, rpos, rng, err, res>>

\* model.objective = pyo.Objective(expr=1)
SudokuDeclareObjective ==
    /\ nb = "sudoku" /\ stage = "Declared"
    /\ SudokuNext_("objective")
    /\ param' = param @@ ("objective" :> 1)
    /\ Built(SudokuDecls)
    /\ UNCHANGED <<prev, nb, data, value, term, objective, out, rpos, rng, err, res>>

\* solution = opt.solve(model)
SudokuSolveCall ==
    /\ nb = "sudoku" /\ stage = "Instantiated" /\ term = "none"
    /\ LET sols == SudokuSolve(param)
       IN  IF sols # {}
           THEN /\ \E X \in sols :
                      /\ value' = X
                      /\ objective' = <<SudokuObjective(param, X)>>
                /\ term' = "optimal"
                /\ stage' = "Solved"
           ELSE /\ term' = "infeasible"
                /\ UNCHANGED <<stage, value, objective>>
    /\ UNCHANGED <<prev, nb, data, built, param, out, rpos, rng, err, res>>

\* res = np.zeros((9, 9)); without values the first v.value > 0 raises
SudokuReportStart ==
    /\ nb = "sudoku" /\ rpos = 0
    /\ \/ stage = "Solved"
       \/ stage = "Instantiated" /\ term = "infeasible"
    /\ IF term = "optimal"
       THEN /\ res' = [ij \in (0 .. 8) \X (0 .. 8) |-> 0]
            /\ rpos' = 1
            /\ UNCHANGED <<stage, err>>
       ELSE /\ Fail("SolveError")
            /\ UNCHANGED <<res, rpos>>
    /\ UNCHANGED <<prev, nb, data, built, param, value, term, objective, out, rng>>

\* component_data_objects(pyo.Var): X in the order of its indices
SudokuVars == Loop3(SudokuN, SudokuN, SudokuN, LAMBDA i, j, k : <<i, j, k>>)

\* v.name
SudokuVarName(v) ==
    <<"X", "[">> \o Decimal(v[1]) \o <<",">> \o Decimal(v[2]) \o <<",">>
        \o Decimal(v[3]) \o <<"]">>

\* [int(x) for x in re.findall("[0-9]", v.name)]
SudokuParse(name) ==
    LET found == FindAllDigits(name) IN [n \in DOMAIN found |-> int(<<found[n]>>)]

\* a loop that writes no cell for a variable at one
SudokuShown_above(val) == val > 1

\* a loop that writes the cell for every variable
SudokuShown_zero(val) == val >= 0

\* whether the loop writes the cell for a variable of this value
SudokuShown(val) == val > 0

\* one turn of the loop: if val > 0, res[i - 1, j - 1] = k
SudokuReportVar ==
    /\ nb = "sudoku" /\ stage = "Solved" /\ rpos \in 1 .. Len(SudokuVars)
    /\ LET v == SudokuVars[rpos]
           ijk == SudokuParse(SudokuVarName(v))
       IN  res' = IF SudokuShown(value[v])
                  THEN [res EXCEPT ![<<ijk[1] - 1, ijk[2] - 1>>] = ijk[3]]
                  ELSE res
    /\ rpos' = rpos + 1
    /\ stage' = IF rpos = Len(SudokuVars) THEN "Reported" ELSE stage
    /\ UNCHANGED <<prev, nb, data, built, param, value, term, objective, out, rng, err>>

NextSudoku ==
    \/ SudokuDeclareVar
    \/ SudokuDeclareConstraints
    \/ SudokuDeclareObjective
    \/ SudokuSolveCall
    \/ SudokuReportStart
    \/ SudokuReportVar

(***************************************************************************)
(* Specifications                                                          *)
(***************************************************************************)
NoValues == [k \in {} |-> 0]

Start(notebook, choices) ==
    /\ nb = notebook
    /\ stage = "Declared"
    /\ data \in choices
    /\ built = 0
    /\ param = NoData
    /\ value = NoValues
    /\ term = "none"
    /\ objective = <<>>
    /\ out = <<>>
    /\ rpos = 0
    /\ rng = 0
    /\ err = "none"
    /\ res = <<>>
    /\ prev = <<>>

InitDiet == Start("diet", DietDataChoices)

SpecDiet == InitDiet /\ [][NextDiet]_vars

InitPMedian == Start("pmedian", PMDataChoices)

SpecPMedian == InitPMedian /\ [][NextPMedian]_vars

InitSudoku == Start("sudoku", {known_cells, known_cells_two})

SpecSudoku == InitSudoku /\ [][NextSudoku]_vars

\* the three notebooks, each run once from its first cell to its last
Init == InitDiet \/ InitPMedian \/ InitSudoku

Next == NextDiet \/ NextPMedian \/ NextSudoku

Spec == Init /\ [][Next]_vars

\* the number of times the instantiate and solve cells are run
MaxRuns == 2

\* instance = model.create_instance(...) run again on the same model and
\* the same data, in the same kernel: the finished run is kept for the
\* comparison and the new instance starts from the declarations; the state
\* of the random module is the kernel's and is not reset
Rerun ==
    /\ nb = "pmedian" /\ stage = "Reported"
    /\ Len(prev) + 1 < MaxRuns
    /\ rng + data.m["None"] * data.n["None"] <= Len(UniformStream)
    /\ prev' = Append(prev, [param |-> param, objective |-> objective,
                             term |-> term])
    /\ stage' = "Declared"
    /\ built' = 0
    /\ param' = NoData
    /\ value' = NoValues
    /\ term' = "none"
    /\ objective' = <<>>
    /\ out' = <<>>
    /\ rpos' = 0
    /\ UNCHANGED <<nb, data, rng, err, res>>

SpecRoundTrip == InitPMedian /\ [][NextPMedian \/ Rerun]_vars

(***************************************************************************)
(* Properties                                                              *)
(***************************************************************************)
\* C1: on the documented diet data the solver's optimal objective is 15.05
\* (1505 cents), the cost of a feasible vector
C1_DietOptimalCost ==
    (nb = "diet" /\ data = DietTable /\ term = "optimal") =>
        /\ objective = <<1505>>
        /\ DietFeasible(param, value)
        /\ cost_rule(param, value) = 1505

C1_Witness ==
    nb = "diet" /\ data = DietTable /\ stage = "Solved" /\ term = "optimal"

\* the lines the diet reporter prints after the objective line
C2_Lines == SubSeq(out, 2, Len(out))

\* C2: on the documented diet data the reporter prints exactly Cheeseburger
\* 4, Fish Sandwich 1, Fries 5, Lowfat Milk 4, every other food is at zero,
\* and the vector is feasible with the optimal cost
C2_DietReportedFoods ==
    (nb = "diet" /\ data = DietTable /\ stage = "Reported") =>
        /\ C2_Lines = << [label |-> Chars("Cheeseburger"), val |-> 4],
                         [label |-> Chars("Fish Sandwich"), val |-> 1],
                         [label |-> Chars("Fries"), val |-> 5],
                         [label |-> Chars("Lowfat Milk"), val |-> 4] >>
        /\ \A f \in Range(param.F) :
              f \notin {"Cheeseburger", "Fish Sandwich", "Fries", "Lowfat Milk"}
                  => value[f] = 0
        /\ DietFeasible(param, value)
        /\ objective = <<1505>>

C2_Witness ==
    nb = "diet" /\ data = DietTable /\ stage = "Reported" /\ Len(out) = 5

\* every digit once in every row, column and 3x3 block of a grid indexed
\* from zero
C3_GridValid(grid) ==
    /\ \A r \in 0 .. 8 : \A d \in 1 .. 9 :
          Cardinality({c \in 0 .. 8 : grid[<<r, c>>] = d}) = 1
    /\ \A c \in 0 .. 8 : \A d \in 1 .. 9 :
          Cardinality({r \in 0 .. 8 : grid[<<r, c>>] = d}) = 1
    /\ \A br \in 0 .. 2 : \A bc \in 0 .. 2 : \A d \in 1 .. 9 :
          Cardinality({rc \in (3 * br .. 3 * br + 2) \X (3 * bc .. 3 * bc + 2) :
                          grid[rc] = d}) = 1

\* the assignment satisfies the row, column, block and cell constraints
C3_Satisfies(p, X) ==
    \A name \in {"row_constraint", "col_constraint", "block_constraint",
                 "allcells_constraint"} :
        \A n \in DOMAIN p[name] :
            Cardinality({v \in p[name][n] : X[v] = 1}) = 1
                /\ \A v \in p[name][n] : X[v] \in {0, 1}

\* C3: the grid reconstructed from a solved sudoku holds every digit 1..9
\* exactly once in each row, each column and each 3x3 block
C3_SudokuGrid ==
    (nb = "sudoku" /\ stage = "Reported") =>
        /\ C3_Satisfies(param, value)
        /\ C3_GridValid(res)

C3_Witness == nb = "sudoku" /\ stage = "Reported" /\ term = "optimal"

\* C4: every known cell (i, j, k) is kept: res[i-1][j-1] = k
C4_KnownCellsKept ==
    (nb = "sudoku" /\ stage = "Reported") =>
        \A n \in DOMAIN data :
            res[<<data[n][1] - 1, data[n][2] - 1>>] = data[n][3]

C4_Witness ==
    nb = "sudoku" /\ stage = "Reported" /\ res[<<0, 6>>] = 2 /\ res[<<8, 2>>] = 6

\* the facilities an assignment opens
C5_Open == {i \in Range(param.M) : value.y[i] = 1}

\* C5: a solved p-median instance opens exactly p facilities, whatever the
\* cost table
C5_ExactlyP ==
    (nb = "pmedian" /\ term = "optimal") =>
        /\ \A i \in Range(param.M) : value.y[i] \in {0, 1}
        /\ Cardinality(C5_Open) = param.p["None"]
        /\ data = PMTable => Cardinality(C5_Open) = 3

C5_Witness ==
    nb = "pmedian" /\ term = "optimal" /\ data = PMTable
        /\ Cardinality(C5_Open) = 3

\* C6: in a solved p-median instance the fractions of every demand node
\* sum to 1 and every fraction is within [0, 1]
C6_DemandServed ==
    (nb = "pmedian" /\ term = "optimal") =>
        /\ \A j \in Range(param.N) :
              LET term_(i) == value.x[<<i, j>>] IN SumOver(param.M, term_) = Den
        /\ \A ij \in DOMAIN value.x : value.x[ij] \in 0 .. Den

C6_Witness ==
    nb = "pmedian" /\ term = "optimal" /\ data = PMTable
        /\ \E ij \in DOMAIN value.x : value.x[ij] = Den

\* C7: a second instantiation and solve on the same model and data has the
\* Parameters and the optimal objective of the first, the cost table of the
\* p-median example included
C7_SameAgain ==
    \A n \in DOMAIN prev :
        /\ stage \in {"Instantiated", "Solved", "Reported"}
              => param = prev[n].param
        /\ stage \in {"Solved", "Reported"}
              => objective = prev[n].objective

\* a supplied value of the data that the declared domain of its Parameter
\* excludes
C8_Violates(d) ==
    IF nb = "diet"
    THEN \/ \E k \in DOMAIN d.c : d.c[k] <= 0
         \/ \E k \in DOMAIN d.a : d.a[k] < 0
         \/ \E k \in DOMAIN d.Nmin : d.Nmin[k] < 0
         \/ \E k \in DOMAIN d.Nmax : d.Nmax[k] < 0
         \/ \E k \in DOMAIN d.V : d.V[k] <= 0
         \/ \E k \in DOMAIN d.Vmax : d.Vmax[k] <= 0
    ELSE \/ \E k \in DOMAIN d.m : d.m[k] < 1
         \/ \E k \in DOMAIN d.n : d.n[k] < 1
         \/ \E k \in DOMAIN d.p : \E l \in DOMAIN d.n :
               d.p[k] < 1 \/ d.p[k] > d.n[l]

\* the Parameters constructed so far hold the supplied values as supplied
C8_AsSupplied ==
    \A name \in DOMAIN param \cap {"c", "a", "Nmin", "V", "Vmax", "m", "n", "p"} :
        (nb = "diet" \/ name # "c") =>
            \A k \in DOMAIN data[name] \cap DOMAIN param[name] :
                param[name][k] = data[name][k]

\* C8: a supplied value outside the declared domain of its Parameter makes
\* the instantiation fail with a DomainError; it is neither accepted nor
\* clamped, and nothing fails before the instantiation starts
C8_DomainEnforced ==
    nb \in {"diet", "pmedian"} =>
        /\ stage \in {"Instantiated", "Solved", "Reported"}
              => ~C8_Violates(data)
        /\ err = "DomainError" => C8_Violates(data) /\ stage = "Failed"
        /\ (C8_Violates(data) /\ stage = "Failed") => err = "DomainError"
        /\ C8_AsSupplied
        /\ (stage = "Declared" /\ built = 0) => err = "none"

C8_Witness ==
    /\ err = "DomainError" /\ stage = "Failed" /\ built > 0
    /\ nb = "diet" /\ data.c["Orange Juice"] = 0

\* the order of the stages of a run
C9_Order == <<"Declared", "Instantiated", "Solved", "Reported">>

C9_Step ==
    /\ stage' # stage =>
          \/ \E n \in 1 .. 3 : stage = C9_Order[n] /\ stage' = C9_Order[n + 1]
          \/ stage \in {"Declared", "Instantiated", "Solved"} /\ stage' = "Failed"
    /\ stage \in {"Failed", "Reported"} => UNCHANGED vars
    /\ err' # "none" => stage' = "Failed"
    /\ stage' = "Failed" => err' # "none" /\ out' = <<>> /\ res' = <<>>
    /\ stage' = "Solved" => term' = "optimal"
    /\ stage' = "Reported" => term' = "optimal"

\* C9: the stages come strictly in the order Declared, Instantiated, Solved,
\* Reported; a failure halts the run, no later stage is entered, none is
\* repeated, and no partial output is produced
C9_StagesInOrder == [][C9_Step]_vars

C9_Witness == stage = "Failed" /\ err = "SolveError" /\ term = "infeasible"

C10_Step ==
    /\ term # "optimal" => value = NoValues
    /\ value' # value =>
          stage = "Instantiated" /\ stage' = "Solved" /\ term' = "optimal"
    /\ stage \in {"Instantiated", "Solved", "Reported"} =>
          param' = param /\ data' = data

\* C10: the variables have no value until a solve succeeds, only the step of
\* a successful solve changes them, and once the instance exists no Set,
\* Parameter, Constraint or Objective changes
C10_OnlySolveAssigns == [][C10_Step]_vars

C10_Witness ==
    /\ stage = "Failed" /\ term = "infeasible" /\ value = NoValues
    /\ nb = "pmedian"

\* the values of the diet variables above zero, in the order of F
C11_DietPositive ==
    LET above(f) == value[f] > 0
        sel == SelectSeq(param.F, above)
    IN  [n \in DOMAIN sel |-> value[sel[n]]]

\* the lines the p-median reporter prints after the objective line
C11_PMLines == SubSeq(out, 2, Len(out))

\* the lines owed to the p-median variables above zero
C11_PMPositive ==
    {[kind |-> "assignment", customer |-> ij[2], facility |-> ij[1],
      val |-> value.x[ij]] : ij \in {k \in DOMAIN value.x : value.x[k] > 0}}
    \cup {[kind |-> "facility", location |-> Decimal(i)] :
            i \in {k \in DOMAIN value.y : value.y[k] > 0}}

C11_Reported ==
    /\ (nb = "diet" /\ stage = "Reported") =>
          [n \in DOMAIN C2_Lines |-> C2_Lines[n].val] = C11_DietPositive
    /\ (nb = "pmedian" /\ stage = "Reported") =>
          /\ Range(C11_PMLines) = C11_PMPositive
          /\ Len(C11_PMLines) = Cardinality(C11_PMPositive)

C11_Step ==
    (stage = "Solved" /\ nb \in {"diet", "pmedian"}) =>
        UNCHANGED <<value, param, data, objective, term>>

\* C11: the reporter prints exactly the variables whose solved value is
\* above zero (none at zero, none above zero left out) and changes nothing
\* of the model: diet x[f], p-median x[i,j] as assignment lines and y[i] as
\* facility lines
C11_ReportsPositive == [](C11_Reported) /\ [][C11_Step]_vars

C11_Witness ==
    /\ nb = "pmedian" /\ stage = "Reported" /\ data = PMTable
    /\ Len(C11_PMLines) = 9
    /\ \E ij \in DOMAIN value.x : value.x[ij] = 0

\* the foods above zero, in the order of F
C12_DietPrinted == LET above(f) == value[f] > 0 IN SelectSeq(param.F, above)

\* C12: the reporter renders each reported variable with its index label:
\* the diet label printed for x[f] is the food name f, for every food name;
\* the (i, j) the p-median reporter prints is the variable's index pair (the
\* location of y[i] is i); the (i, j, k) the Sudoku reporter parses from the
\* name is the variable's index triple
C12_LabelsAreIndices ==
    /\ (nb = "diet" /\ stage = "Reported") =>
          /\ \A f \in Range(param.F) : DietLabel(DietVarName(f)) = Chars(f)
          /\ \A n \in DOMAIN C2_Lines :
                C2_Lines[n].label = Chars(C12_DietPrinted[n])
    /\ (nb = "pmedian" /\ stage = "Reported") =>
          \A n \in DOMAIN PMVars(param) :
              LET v == PMVars(param)[n]
              IN  IF v[1] = "x"
                  THEN LET line == print_x_result(PMVarName(v), 1)
                       IN  line.facility = v[2] /\ line.customer = v[3]
                  ELSE print_y_result(PMVarName(v), 1).location = Decimal(v[2])
    /\ (nb = "sudoku" /\ stage = "Reported") =>
          \A n \in DOMAIN SudokuVars :
              SudokuParse(SudokuVarName(SudokuVars[n])) = SudokuVars[n]

\* C13: in a solved p-median instance x[i,j] <= y[i] for every site and
\* demand node, so x[i,j] > 0 implies y[i] = 1, and every facility named in
\* a printed assignment line is printed as a located facility as well
C13_OnlyOpenFacilities ==
    /\ (nb = "pmedian" /\ term = "optimal") =>
          \A i \in Range(param.M) : \A j \in Range(param.N) :
              /\ value.x[<<i, j>>] <= Den * value.y[i]
              /\ value.x[<<i, j>>] > 0 => value.y[i] = 1
    /\ (nb = "pmedian" /\ stage = "Reported") =>
          \A n \in DOMAIN out :
              out[n].kind = "assignment" =>
                  \E k \in DOMAIN out :
                      /\ out[k].kind = "facility"
                      /\ out[k].location = Decimal(out[n].facility)

C13_Witness ==
    /\ nb = "pmedian" /\ stage = "Reported" /\ data = PMTable
    /\ \E n \in DOMAIN out : out[n].kind = "assignment" /\ out[n].facility = 9
    /\ \E i \in Range(param.M) : value.y[i] = 0

\* a Param without default or initializer that the data leaves without a
\* value at an index of its index sets
C14_Missing(d) ==
    IF nb = "diet"
    THEN \/ \E f \in Range(d.F) : f \notin DOMAIN d.c \/ f \notin DOMAIN d.V
         \/ \E fj \in Range(d.F) \X Range(d.N) : fj \notin DOMAIN d.a
         \/ "None" \notin DOMAIN d.Vmax
    ELSE \E name \in {"m", "n", "p"} : "None" \notin DOMAIN d[name]

C15_NoRepeat(seq) == \A a \in DOMAIN seq : \A b \in DOMAIN seq : seq[a] = seq[b] => a = b

\* the list holds each member of the family once and nothing else
C15_Exactly(seq, family) == Range(seq) = family /\ C15_NoRepeat(seq)

C15_Digits == 1 .. 9

\* C15: every constraint family has exactly one instance per tuple of the
\* cross product of its index sets and none outside: diet nutrient_limit
\* one per nutrient (7) and one volume; p-median |N| demand, one facilities,
\* |M|*|N| openfac (6, 1, 60 for m = 10, n = 6); Sudoku 81 row, 81 column,
\* 81 block, 81 cell and 20 known-cell constraints
C15_ConstraintFamilies ==
    stage \in {"Instantiated", "Solved", "Reported"} =>
        /\ nb = "diet" =>
              /\ C15_Exactly(param.nutrient_limit, Range(data.N))
              /\ Len(param.volume) = 1
              /\ data = DietTable =>
                    Len(param.nutrient_limit) = 7
        /\ nb = "pmedian" =>
              /\ C15_Exactly(param.demand, 1 .. data.n["None"])
              /\ Len(param.facilities) = 1
              /\ C15_Exactly(param.openfac,
                             (1 .. data.m["None"]) \X (1 .. data.n["None"]))
              /\ data = PMTable =>
                    /\ Len(param.demand) = 6
                    /\ Len(param.openfac) = 60
        /\ nb = "sudoku" =>
              /\ C15_Exactly(param.row_constraint,
                    {{<<i, j, k>> : j \in C15_Digits} :
                        i \in C15_Digits, k \in C15_Digits})
              /\ C15_Exactly(param.col_constraint,
                    {{<<i, j, k>> : i \in C15_Digits} :
                        j \in C15_Digits, k \in C15_Digits})
              /\ C15_Exactly(param.allcells_constraint,
                    {{<<i, j, k>> : k \in C15_Digits} :
                        i \in C15_Digits, j \in C15_Digits})
              /\ C15_Exactly(param.block_constraint,
                    {{<<p, q, k>> : p \in 3 * a + 1 .. 3 * a + 3,
                                    q \in 3 * b + 1 .. 3 * b + 3} :
                        a \in 0 .. 2, b \in 0 .. 2, k \in C15_Digits})
              /\ C15_Exactly(param.knowncells_constraint,
                    {{data[n]} : n \in DOMAIN data})
              /\ Len(param.row_constraint) = 81
              /\ Len(param.col_constraint) = 81
              /\ Len(param.block_constraint) = 81
              /\ Len(param.allcells_constraint) = 81
              /\ data = known_cells => Len(param.knowncells_constraint) = 20

C15_Witness ==
    /\ nb = "pmedian" /\ stage = "Instantiated" /\ data = PMTable
    /\ Len(param.openfac) = 60 /\ Len(param.demand) = 6

\* assignments of X to try the objective on: those that meet the
\* constraints, all zero, all one, and each variable alone at one
C16_Samples ==
    SudokuAssignments(param)
    \cup {[v \in SudokuX |-> b] : b \in {0, 1}}
    \cup {[v \in SudokuX |-> IF v = u THEN 1 ELSE 0] : u \in SudokuX}

\* C16: the Sudoku objective is a constant: its value is the same for every
\* assignment of X, every assignment that meets the constraints is optimal,
\* and the objective value is the same whatever the grid
C16_ConstantObjective ==
    (nb = "sudoku" /\ stage = "Solved" /\ rpos = 0) =>
        /\ \A X \in C16_Samples : SudokuObjective(param, X) = 1
        /\ SudokuSolve(param) = SudokuAssignments(param)
        /\ objective = <<1>>

C16_Witness ==
    /\ nb = "sudoku" /\ stage = "Solved" /\ rpos = 0 /\ objective = <<1>>
    /\ data = known_cells_two /\ value[<<1, 3, 3>>] = 1

\* the total of nutrient j, and the volume, of the serving vector x on the
\* supplied table
C17_Total(j, x) ==
    LET term_(i) == data.a[<<data.F[i], j>>] * x[data.F[i]]
    IN  SumSeq([i \in DOMAIN data.F |-> term_(i)])

C17_Volume(x) == SumSeq([i \in DOMAIN data.F |-> data.V[data.F[i]] * x[data.F[i]]])

\* serving vectors around the one the solve returned
C17_Samples ==
    {[f \in Range(data.F) |-> value[f] + d[f]] : d \in [Range(data.F) -> {0, 1}]}

\* C17: a nutrient without supplied Nmin or Nmax has the default 0 or
\* infinity; on the documented table only Carbo is bounded above, by 375,
\* and a serving vector is feasible exactly when it meets every Nmin, the
\* Carbo upper bound and the volume bound
C17_Defaults ==
    (nb = "diet" /\ stage \in {"Instantiated", "Solved", "Reported"}) =>
        /\ \A j \in Range(data.N) :
              /\ param.Nmin[j] = IF j \in DOMAIN data.Nmin THEN data.Nmin[j] ELSE 0
              /\ param.Nmax[j] = IF j \in DOMAIN data.Nmax
                                 THEN Fin(data.Nmax[j]) ELSE infinity
        /\ data = DietTable =>
              /\ {j \in Range(data.N) : param.Nmax[j] # infinity} = {"Carbo"}
              /\ param.Nmax["Carbo"] = Fin(375)
        /\ (data = DietTable /\ stage = "Solved" /\ rpos = 0) =>
              \A x \in C17_Samples :
                  DietFeasible(param, x) <=>
                      /\ \A j \in Range(data.N) : C17_Total(j, x) >= data.Nmin[j]
                      /\ C17_Total("Carbo", x) <= 375
                      /\ C17_Volume(x) <= 750

C17_Witness ==
    /\ nb = "diet" /\ data = DietTable /\ stage = "Solved" /\ rpos = 0
    /\ param.Nmax["Cal"] = infinity /\ param.Nmax["Carbo"] = Fin(375)
    /\ \E x \in C17_Samples : DietFeasible(param, x) /\ x # value
    /\ \E x \in C17_Samples : ~DietFeasible(param, x)

\* the cells a block constraint refers to
C18_Cells(con) == {<<v[1], v[2]>> : v \in con}

\* the blocks of the grid, as sets of cells
C18_Blocks == {C18_Cells(param.block_constraint[n]) : n \in DOMAIN param.block_constraint}

\* C18: the block constraints partition the grid: the block origins are
\* {1, 4, 7} x {1, 4, 7}, every cell of a block constraint lies in
\* 1..9 x 1..9, every cell of the grid is in exactly one of nine blocks, and
\* every (cell, digit) variable is in exactly one block constraint
C18_BlocksPartition ==
    (nb = "sudoku" /\ "block_constraint" \in DOMAIN param /\ rpos = 0) =>
        /\ arange(1, 9, 3) = <<1, 4, 7>>
        /\ \A n \in DOMAIN param.block_constraint :
              \A v \in param.block_constraint[n] :
                  v[1] \in 1 .. 9 /\ v[2] \in 1 .. 9 /\ v[3] \in 1 .. 9
        /\ Cardinality(C18_Blocks) = 9
        /\ \A b \in C18_Blocks :
              \E i \in {1, 4, 7} : \E j \in {1, 4, 7} :
                  b = (i .. i + 2) \X (j .. j + 2)
        /\ \A cell \in (1 .. 9) \X (1 .. 9) :
              Cardinality({b \in C18_Blocks : cell \in b}) = 1
        /\ \A v \in (1 .. 9) \X (1 .. 9) \X (1 .. 9) :
              Cardinality({n \in DOMAIN param.block_constraint :
                              v \in param.block_constraint[n]}) = 1

C18_Witness ==
    /\ nb = "sudoku" /\ stage = "Instantiated"
    /\ "block_constraint" \in DOMAIN param
    /\ <<9, 9, 9>> \in param.block_constraint[81]
    /\ <<1, 1, 1>> \in param.block_constraint[1]

\* every cell has exactly one digit whose variable is 1
C19_OneDigit ==
    \A i \in 1 .. 9 : \A j \in 1 .. 9 :
        Cardinality({k \in 1 .. 9 : value[<<i, j, k>>] = 1}) = 1

\* a turn of the reporter loop writes only for a variable above zero, and
\* then into an entry that still holds 0
C19_Step ==
    (nb = "sudoku" /\ stage = "Solved" /\ rpos >= 1) =>
        LET v == SudokuVars[rpos]
            cell == <<v[1] - 1, v[2] - 1>>
        IN  IF value[v] > 0
            THEN res[cell] = 0 /\ res' = [res EXCEPT ![cell] = v[3]]
            ELSE res' = res

\* C19: in a solved Sudoku every cell has exactly one digit k with
\* X[i,j,k] = 1, so the reporter writes each of the 81 entries of res
\* exactly once: none keeps the initial 0, none is written a second time
C19_EachCellOnce ==
    /\ []((nb = "sudoku" /\ stage \in {"Solved", "Reported"}) => C19_OneDigit)
    /\ []((nb = "sudoku" /\ stage = "Reported") =>
            \A cell \in (0 .. 8) \X (0 .. 8) : res[cell] \in 1 .. 9)
    /\ [][C19_Step]_vars

C19_Witness ==
    /\ nb = "sudoku" /\ stage = "Reported" /\ data = known_cells
    /\ \A cell \in (0 .. 8) \X (0 .. 8) : res[cell] # 0

(***************************************************************************)
(* C20: every p-median instance whose data passes the domain checks (m    *)
(* and n positive integers, p within 1..n) has values of x and binary y   *)
(* that meet facilities_, demand_ and openfac_, so the solve of accepted  *)
(* data never ends infeasible.  The code bounds p by n, the number of     *)
(* demand nodes, and not by m, the number of candidate sites that         *)
(* facilities_ sums over: m = 2, n = 6, p = 3 is accepted, and no binary  *)
(* y over two sites sums to 3.                                            *)
(***************************************************************************)
\* the instance was constructed: every Param passed its domain check
C20_Accepted ==
    /\ nb = "pmedian" /\ stage = "Instantiated"
    /\ param.m["None"] > 0 /\ param.n["None"] > 0
    /\ param.p["None"] \in 1 .. param.n["None"]

C20_AcceptedIsFeasible == C20_Accepted => term # "infeasible"

(***************************************************************************)
(* C21: on the documented diet data the optimum is unique.  Every serving  *)
(* vector that the solve can return (feasible, non-negative integer, of    *)
(* the least cost) is Cheeseburger 4, Fish Sandwich 1, Fries 5, Lowfat     *)
(* Milk 4 and 0 of every other food, so the foods the reporter prints are  *)
(* the same whichever optimal vector the solver hands back.                *)
(***************************************************************************)
C21_Vector ==
    [f \in Range(DietF) |->
        CASE f = "Cheeseburger" -> 4 [] f = "Fish Sandwich" -> 1
          [] f = "Fries" -> 5 [] f = "Lowfat Milk" -> 4
          [] OTHER -> 0]

\* the foods of the lines printed after the objective line
C21_ReportedFoods == {out[n].label : n \in 2 .. Len(out)}

C21_UniqueOptimum ==
    /\ (nb = "diet" /\ data = DietTable /\ stage = "Solved" /\ rpos = 0) =>
          LET r == DietSolve(param)
          IN  /\ r.found
              /\ r.sols = {C21_Vector}
              /\ \A x \in r.sols : DietFeasible(param, x) /\ cost_rule(param, x) = r.cost
              /\ value = C21_Vector
    /\ (nb = "diet" /\ data = DietTable /\ stage = "Reported") =>
          C21_ReportedFoods = {Chars("Cheeseburger"), Chars("Fish Sandwich"),
                               Chars("Fries"), Chars("Lowfat Milk")}

C21_Witness ==
    /\ nb = "diet" /\ data = DietTable /\ stage = "Reported"
    /\ value = C21_Vector
    /\ Cardinality(C21_ReportedFoods) = 4

====
